---------------------------- MODULE Spec2Model ----------------------------
(***************************************************************************)
(* The fasttext_blog notebook (src/fasttext_blog.ipynb) as a state machine. *)
(* The notebook is a linear pipeline of code cells; every cell (and every   *)
(* iteration of a loop in a cell) is one action, and pc names the next cell *)
(* to run.                                                                  *)
(*                                                                          *)
(* Strings are sequences of one-character strings, so that lower() and      *)
(* split(" ") are computed as Python computes them.  Real-valued weights    *)
(* are integers counting quanta of 0.05.                                    *)
(***************************************************************************)
EXTENDS Integers, Sequences, FiniteSets, TLC

VARIABLES
    pc,               \* the next cell of the notebook to run
    err,              \* the exception that stopped the run ("" while running)
    families,         \* the triples read from ./data/families.csv
    entities,         \* np.unique(families[['head','tail']].values)
    entities_index,   \* Tokenizer.word_index
    df,               \* the one-hot encoded (then augmented, then shuffled) frame
    i,                \* the oversampling loop counter
    tmp, test_data, training_data, validation_data,   \* the frames of the split
    device,           \* where the backend runs the embedding lookup
    embeddings,       \* the Embedding layer's matrix, rows 0..input_dim-1
    kernel, bias,     \* the Dense layer's weights
    X_train, y_train, X_valid, y_valid,               \* the encoded splits
    epoch,            \* the epoch model.fit is in
    index_array,      \* the order of the training rows in this epoch
    batch,            \* batches of this epoch already trained on
    history,          \* val_acc of every finished epoch
    labels, tokens,   \* what the visualization cell hands to TSNE
    run,              \* 1 in the first run of the notebook, 2 in a second run
    first_run,        \* the weights the first run ended with
    shape,            \* row counts of the frames, where only the counts are kept
    prediction        \* the last input row given to the model, and its output

inputVars == <<families, device>>
vocabVars == <<entities, entities_index>>
frameVars == <<df, i, tmp, test_data, training_data, validation_data>>
modelVars == <<embeddings, kernel, bias>>
encVars   == <<X_train, y_train, X_valid, y_valid>>
fitVars   == <<epoch, index_array, batch, history>>
visVars   == <<labels, tokens>>
runVars   == <<run, first_run, shape, prediction>>

vars == <<pc, err, inputVars, vocabVars, frameVars, modelVars, encVars,
          fitVars, visVars, runVars>>

(***************************************************************************)
(* Bounds of the model.                                                     *)
(***************************************************************************)
\* Largest number of triples in the input file.
MaxTriples == 2
\* Iterations of the oversampling loop (range(20) in the notebook).
Iterations == 1

(***************************************************************************)
(* Strings.                                                                 *)
(***************************************************************************)
\* Unicode code points of the characters the inputs are written in.
Code(c) ==
    CASE c = " " -> 32
      [] c = "A" -> 65
      [] c = "B" -> 66
      [] c = "a" -> 97
      [] c = "b" -> 98
      [] c = "c" -> 99

\* str.lower() on one character.
LowerChar(c) ==
    CASE c = "A" -> "a"
      [] c = "B" -> "b"
      [] OTHER -> c

\* str(x).lower()
Lower(s) == [k \in 1..Len(s) |-> LowerChar(s[k])]

\* Python's (and numpy's) order on strings: lexicographic by code point.
RECURSIVE StrLess(_, _)
StrLess(s, t) ==
    IF t = <<>> THEN FALSE
    ELSE IF s = <<>> THEN TRUE
    ELSE IF Code(Head(s)) # Code(Head(t)) THEN Code(Head(s)) < Code(Head(t))
    ELSE StrLess(Tail(s), Tail(t))

\* text.split(" ") followed by [i for i in seq if i]: the maximal runs of
\* characters other than the separator, in order.
RECURSIVE SplitFrom(_, _, _)
SplitFrom(s, k, cur) ==
    IF k > Len(s)
    THEN IF cur = <<>> THEN <<>> ELSE <<cur>>
    ELSE IF s[k] = " "
         THEN (IF cur = <<>> THEN <<>> ELSE <<cur>>) \o SplitFrom(s, k + 1, <<>>)
         ELSE SplitFrom(s, k + 1, Append(cur, s[k]))

\* keras.preprocessing.text.text_to_word_sequence(text, filters='', lower=True,
\* split=" ")
text_to_word_sequence(text) == SplitFrom(Lower(text), 1, <<>>)

Range(f) == {f[k] : k \in DOMAIN f}

(***************************************************************************)
(* Inputs.                                                                  *)
(***************************************************************************)
\* The entity strings the input file may hold.
EntityStrings ==
    { <<"a">>, <<"b">>, <<"c">>, <<"A">>, <<"a", " ", "b">> }

\* The relation strings the input file may hold, in sorted order.
Relations == <<"r1", "r2">>

Triples ==
    [head : EntityStrings, relation : Range(Relations), tail : EntityStrings]

(***************************************************************************)
(* Vocabulary Builder.                                                      *)
(***************************************************************************)
\* sorted unique elements of a set of strings, as np.unique returns them.
RECURSIVE SortedSeq(_)
SortedSeq(S) ==
    IF S = {} THEN <<>>
    ELSE LET m == CHOOSE x \in S : \A y \in S \ {x} : StrLess(x, y)
         IN <<m>> \o SortedSeq(S \ {m})

unique(trs) ==
    SortedSeq({trs[k].head : k \in DOMAIN trs} \cup {trs[k].tail : k \in DOMAIN trs})

\* The words of all texts, in the order fit_on_texts meets them.
RECURSIVE AllWords(_)
AllWords(texts) ==
    IF texts = <<>> THEN <<>>
    ELSE text_to_word_sequence(Head(texts)) \o AllWords(Tail(texts))

\* word_counts is an OrderedDict: its keys in order of first occurrence.
RECURSIVE FirstSeen(_, _)
FirstSeen(ws, seen) ==
    IF ws = <<>> THEN <<>>
    ELSE IF Head(ws) \in seen THEN FirstSeen(Tail(ws), seen)
    ELSE <<Head(ws)>> \o FirstSeen(Tail(ws), seen \cup {Head(ws)})

word_count(ws, w) == Cardinality({k \in DOMAIN ws : ws[k] = w})

\* wcounts.sort(key=lambda x: x[1], reverse=True): a stable sort, by count,
\* largest first.
RECURSIVE SortByCount(_, _)
SortByCount(keys, ws) ==
    IF keys = <<>> THEN <<>>
    ELSE LET top == CHOOSE k \in DOMAIN keys :
                      /\ \A j \in DOMAIN keys :
                            word_count(ws, keys[j]) <= word_count(ws, keys[k])
                      /\ \A j \in 1..(k - 1) :
                            word_count(ws, keys[j]) < word_count(ws, keys[k])
             rest == [j \in 1..(Len(keys) - 1) |->
                        IF j < top THEN keys[j] ELSE keys[j + 1]]
         IN <<keys[top]>> \o SortByCount(rest, ws)

\* word_index = dict(zip(sorted_voc, range(1, len(sorted_voc) + 1)))
word_index(texts) ==
    LET ws == AllWords(texts)
        sorted_voc == SortByCount(FirstSeen(ws, {}), ws)
    IN [w \in Range(sorted_voc) |->
          CHOOSE k \in DOMAIN sorted_voc : sorted_voc[k] = w]

\* cell 3: entities = np.unique(families[['head', 'tail']].values)
BuildEntities ==
    /\ pc = "entities"
    /\ entities' = unique(families)
    /\ pc' = "tokenizer"
    /\ UNCHANGED <<err, inputVars, entities_index, frameVars, modelVars, encVars, fitVars, visVars, runVars>>

\* cell 4: t.fit_on_texts(list(entities)); entities_index = t.word_index
FitTokenizer ==
    /\ pc = "tokenizer"
    /\ entities_index' = word_index(entities)
    /\ pc' = "get_dummies"
    /\ UNCHANGED <<err, inputVars, entities, frameVars, modelVars, encVars, fitVars, visVars, runVars>>

(***************************************************************************)
(* Dataset Encoder: one-hot labels, oversampling, shuffle and split.        *)
(***************************************************************************)
\* The relation columns of the frame: the distinct relations of the input, in
\* sorted order (get_dummies sorts the categories).
relation_columns(trs) ==
    SelectSeq(Relations, LAMBDA r : \E k \in DOMAIN trs : trs[k].relation = r)

\* get_dummies with drop_first=True semantics: the first category has no
\* indicator set.
dummy_row_drop_first(trs, k) ==
    [label    |-> k - 1,
     head     |-> trs[k].head,
     tail     |-> trs[k].tail,
     relation |-> [r \in Range(relation_columns(trs)) |->
                     IF trs[k].relation = r /\ r # relation_columns(trs)[1]
                     THEN 1 ELSE 0]]

\* One row of pd.get_dummies(families, columns=['relation']): the relation
\* column is replaced by one indicator column per category.  label is the
\* row's index label.
dummy_row(trs, k) ==
    [label    |-> k - 1,
     head     |-> trs[k].head,
     tail     |-> trs[k].tail,
     relation |-> [r \in Range(relation_columns(trs)) |->
                     IF trs[k].relation = r THEN 1 ELSE 0]]

get_dummies(trs) == [k \in 1..Len(trs) |-> dummy_row(trs, k)]

\* cell 5: df = pd.get_dummies(families, columns=['relation'])
GetDummies ==
    /\ pc = "get_dummies"
    /\ df' = get_dummies(families)
    /\ i' = 0
    /\ pc' = "oversample"
    /\ UNCHANGED <<err, inputVars, vocabVars,
                   tmp, test_data, training_data, validation_data, modelVars, encVars, fitVars, visVars, runVars>>

\* Python 3 round(): to the nearest integer, halves to the even one; here of
\* the rational num / den.
RoundHalfEven(num, den) ==
    LET q == num \div den
        r == num % den
    IN IF 2 * r > den \/ (2 * r = den /\ q % 2 = 1) THEN q + 1 ELSE q

\* int(frac * len): truncation in place of rounding.
sample_size_truncated(n) == (3 * n) \div 10

\* DataFrame.sample(frac=0.3) draws int(round(frac * len)) rows.
sample_size(n) == RoundHalfEven(3 * n, 10)

\* sample(replace=True): the ways to draw k of the positions 1..n, a position
\* as often as it comes.
DrawsWithReplacement(n, k) == [1..k -> 1..n]

\* The ways to draw k of the positions 1..n without replacement, in order.
Draws(n, k) ==
    {p \in [1..k -> 1..n] : \A a, b \in 1..k : a # b => p[a] # p[b]}

\* frame.iloc[positions]
take(frame, positions) == [k \in DOMAIN positions |-> frame[positions[k]]]

\* reset_index(drop=True) / ignore_index=True: the labels become 0..n-1.
reset_index(frame) == [k \in DOMAIN frame |-> [frame[k] EXCEPT !.label = k - 1]]

\* df.append(sample, ignore_index=True)
append(frame, sample) == reset_index(frame \o sample)

\* cell 6, one iteration of: for i in range(20):
\*     sample = df.sample(frac=0.3).reset_index(drop=True)
\*     df = df.append(sample, ignore_index=True)
Oversample ==
    /\ pc = "oversample"
    /\ i < Iterations
    /\ \E p \in Draws(Len(df), sample_size(Len(df))) :
          df' = append(df, reset_index(take(df, p)))
    /\ i' = i + 1
    /\ UNCHANGED <<pc, err, inputVars, vocabVars,
                   tmp, test_data, training_data, validation_data, modelVars, encVars, fitVars, visVars, runVars>>

\* cell 6: the loop is over.
OversampleDone ==
    /\ pc = "oversample"
    /\ i = Iterations
    /\ pc' = "shuffle"
    /\ UNCHANGED <<err, inputVars, vocabVars, frameVars, modelVars, encVars, fitVars, visVars, runVars>>

\* cell 7: df = df.sample(frac=1): every row, in a random order, each with the
\* label it had.
Shuffle ==
    /\ pc = "shuffle"
    /\ \E p \in Draws(Len(df), Len(df)) : df' = take(df, p)
    /\ pc' = "split_test"
    /\ UNCHANGED <<err, inputVars, vocabVars, i,
                   tmp, test_data, training_data, validation_data, modelVars, encVars, fitVars, visVars, runVars>>

\* sklearn _validate_shuffle_split with test_size=0.1, train_size=None:
\* n_test = ceil(0.1 * n_samples), n_train = n_samples - n_test.
n_test(n) == (n + 9) \div 10
n_train(n) == n - n_test(n)

\* A train slice that starts one place early and so shares a row with the
\* test slice.
split_train_overlapping(frame, p) ==
    take(frame, SubSeq(p, n_test(Len(frame)), Len(frame)))

\* train_test_split(frame, test_size=0.1) under the permutation p that
\* ShuffleSplit draws: the first n_test places of p are the test rows, the
\* following n_train the train rows.
split_test(frame, p) == take(frame, SubSeq(p, 1, n_test(Len(frame))))
split_train(frame, p) ==
    take(frame, SubSeq(p, n_test(Len(frame)) + 1, Len(frame)))

\* cell 7: tmp, test_data = train_test_split(df, test_size=0.1).  A release of
\* scikit-learn that checks for an empty train set raises ValueError when
\* n_train = 0; one that does not returns the empty frame.
SplitTest ==
    /\ pc = "split_test"
    /\ \/ /\ \E p \in Draws(Len(df), Len(df)) :
               /\ tmp' = split_train(df, p)
               /\ test_data' = split_test(df, p)
          /\ pc' = "split_valid"
          /\ err' = err
       \/ /\ n_train(Len(df)) = 0
          /\ pc' = "error"
          /\ err' = "ValueError"
          /\ UNCHANGED <<tmp, test_data>>
    /\ UNCHANGED <<inputVars, vocabVars, df, i,
                   training_data, validation_data, modelVars, encVars, fitVars, visVars, runVars>>

\* cell 7: training_data, validation_data = train_test_split(tmp, test_size=0.1)
SplitValid ==
    /\ pc = "split_valid"
    /\ \/ /\ \E p \in Draws(Len(tmp), Len(tmp)) :
               /\ training_data' = split_train(tmp, p)
               /\ validation_data' = split_test(tmp, p)
          /\ pc' = "model"
          /\ err' = err
       \/ /\ n_train(Len(tmp)) = 0
          /\ pc' = "error"
          /\ err' = "ValueError"
          /\ UNCHANGED <<training_data, validation_data>>
    /\ UNCHANGED <<inputVars, vocabVars, df, i, tmp, test_data, modelVars, encVars, fitVars, visVars, runVars>>

(***************************************************************************)
(* Embedding Classifier.  Weights are integers on a grid; the notebook's    *)
(* sizes are scaled down: output_dim 200 to EmbDim, Dense(12) to Units, the *)
(* initializer's interval [-0.05, 0.05) to [minval, maxval).                *)
(***************************************************************************)
\* Embedding(output_dim=200)
EmbDim == 1
\* Dense(12)
Units == 2
\* RandomUniform(minval=-0.05, maxval=0.05, seed=None)
minval == -1
maxval == 1

\* Embedding(input_dim=len(entities_index.keys()))
input_dim == Cardinality(DOMAIN entities_index)

RECURSIVE Sum(_, _)
\* The sum of f[x] over the finite set S.
Sum(f, S) ==
    IF S = {} THEN 0
    ELSE LET x == CHOOSE y \in S : TRUE IN f[x] + Sum(f, S \ {x})

RECURSIVE SumTo(_, _)
\* f[1] + ... + f[n]
SumTo(f, n) == IF n = 0 THEN 0 ELSE f[n] + SumTo(f, n - 1)

\* The sum of the elements of the sequence f.
SumSeq(f) == SumTo(f, Len(f))

Zeros == [d \in 1..EmbDim |-> 0]

\* Whether the embedding lookup of `index` is within the matrix.
InRange(index) == index \in 0..(input_dim - 1)

\* embedding(main_input) for one index: K.gather(embeddings, index).  For an
\* index outside the matrix the backend's gather op stores zeros when it runs
\* on a GPU (on a CPU it raises, see LookupFails).
gather(emb, index) == IF index \in DOMAIN emb THEN emb[index] ELSE Zeros

LookupFails(x) == device = "cpu" /\ (~InRange(x.head) \/ ~InRange(x.tail))

\* A pooling that keeps the head's row alone, as a layer that does not
\* average over the sequence axis would.
HeadOnlyPooling1D(u, v) == [d \in 1..EmbDim |-> 2 * u[d]]

\* GlobalAveragePooling1D over the two looked-up rows, as twice the mean (the
\* grid has no halves).
GlobalAveragePooling1D(u, v) == [d \in 1..EmbDim |-> u[d] + v[d]]

\* Dense(12): kernel^T . mean + bias, as twice the logit.
Dense(ker, b, pooled) ==
    [r \in 1..Units |->
        SumSeq([d \in 1..EmbDim |-> pooled[d] * ker[d][r]]) + 2 * b[r]]

\* Activation('sigmoid') of z2 / 2, in percent; strictly between 0 and 100.
sigmoid(z2) ==
    LET up == <<62, 73, 82, 88, 92, 95, 97, 98>>
        a  == IF z2 < 0 THEN -z2 ELSE z2
        v  == IF a = 0 THEN 50 ELSE IF a > Len(up) THEN 99 ELSE up[a]
    IN IF z2 < 0 THEN 100 - v ELSE v

\* The model's output for the input row (h, t).
score(emb, ker, b, h, t) ==
    LET z == Dense(ker, b, GlobalAveragePooling1D(gather(emb, h), gather(emb, t)))
    IN [r \in 1..Units |-> sigmoid(z[r])]

InitQuanta == minval..(maxval - 1)

\* cell 8: the layers are built, which draws the embedding matrix and the
\* kernel from their initializers (the bias starts at zero).
BuildModel ==
    /\ pc = "model"
    /\ embeddings' \in [0..(input_dim - 1) -> [1..EmbDim -> InitQuanta]]
    /\ kernel' \in [1..EmbDim -> [1..Units -> InitQuanta]]
    /\ bias' = [r \in 1..Units |-> 0]
    /\ pc' = "encode"
    /\ UNCHANGED <<err, inputVars, vocabVars, frameVars, encVars, fitVars,
                   visVars, runVars>>

\* The forward computation on one input row (h, t), on its own: the output,
\* or the backend's error for an index outside the matrix.
Predict ==
    /\ pc = "predict"
    /\ \E h, t \in 0..input_dim :
          IF LookupFails([head |-> h, tail |-> t])
          THEN /\ pc' = "error"
               /\ err' = "InvalidArgumentError"
               /\ prediction' = prediction
          ELSE /\ prediction' =
                    [input  |-> <<h, t>>,
                     output |-> score(embeddings, kernel, bias, h, t)]
               /\ pc' = pc
               /\ err' = err
    /\ UNCHANGED <<inputVars, vocabVars, frameVars, modelVars, encVars, fitVars,
                   visVars, run, first_run, shape>>

(***************************************************************************)
(* Index encoding.                                                          *)
(***************************************************************************)
\* Python's None, which dict.get returns for a missing key; no index is
\* negative, so -1 stands for it.
None == -1

\* entities_index.get(str(x)): the lookup without the lowercasing.
get_as_written(index, x) == IF x \in DOMAIN index THEN index[x] ELSE None

\* entities_index.get(str(x).lower())
get(index, x) == IF Lower(x) \in DOMAIN index THEN index[Lower(x)] ELSE None

\* frame[['head', 'tail']].applymap(lambda x: entities_index.get(str(x).lower()))
applymap(frame, index) ==
    [k \in DOMAIN frame |->
        [head |-> get(index, frame[k].head), tail |-> get(index, frame[k].tail)]]

\* .astype('int') raises on a frame that holds None.
HasNone(X) == \E k \in DOMAIN X : X[k].head = None \/ X[k].tail = None

\* frame.filter(regex=("relation")): the relation columns, in column order.
filter_relation(frame) ==
    [k \in DOMAIN frame |->
        LET cols == relation_columns(families)
        IN [c \in 1..Len(cols) |-> frame[k].relation[cols[c]]]]

\* cell 9: X_train, y_train, X_valid, y_valid.  The statements run in order;
\* the cell stops at the first astype that raises.
Encode ==
    /\ pc = "encode"
    /\ LET Xt == applymap(training_data, entities_index)
           Xv == applymap(validation_data, entities_index)
       IN IF HasNone(Xt)
          THEN /\ pc' = "error"
               /\ err' = "astype"
               /\ UNCHANGED encVars
          ELSE /\ X_train' = Xt
               /\ y_train' = filter_relation(training_data)
               /\ IF HasNone(Xv)
                  THEN /\ pc' = "error"
                       /\ err' = "astype"
                       /\ UNCHANGED <<X_valid, y_valid>>
                  ELSE /\ X_valid' = Xv
                       /\ y_valid' = filter_relation(validation_data)
                       /\ pc' = "fit"
                       /\ err' = err
    /\ UNCHANGED <<inputVars, vocabVars, frameVars, modelVars, fitVars,
                   visVars, runVars>>

(***************************************************************************)
(* Training Loop: model.fit.  One Adam step is abstracted to a move of one  *)
(* grid step against the sign of each weight's gradient.                    *)
(***************************************************************************)
\* model.fit(epochs=20)
Epochs == 2
\* model.fit(batch_size=128)
BatchSize == 1

Sgn(x) == IF x > 0 THEN 1 ELSE IF x < 0 THEN -1 ELSE 0

Min(a, b) == IF a < b THEN a ELSE b

\* The rows of X_train in batch number b (from 0) of the epoch's order.
batch_rows(order, b) ==
    {order[k] : k \in (b * BatchSize + 1)..Min((b + 1) * BatchSize, Len(order))}

num_batches(n) == (n + BatchSize - 1) \div BatchSize

\* d loss / d logit of binary cross-entropy under the sigmoid, for example e:
\* prediction minus label, in percent.
dlogit(emb, ker, b, X, y, e) ==
    LET p == score(emb, ker, b, X[e].head, X[e].tail)
    IN [r \in 1..Units |-> p[r] - 100 * y[e][r]]

pooled_of(emb, X, e) ==
    GlobalAveragePooling1D(gather(emb, X[e].head), gather(emb, X[e].tail))

\* How many of the two inputs of example e look up row `row`.
uses(X, e, row) ==
    (IF X[e].head = row THEN 1 ELSE 0) + (IF X[e].tail = row THEN 1 ELSE 0)

\* The weights after one training step on the rows B of (X, y).
step_bias(emb, ker, b, X, y, B) ==
    [r \in 1..Units |->
        b[r] - Sgn(Sum([e \in B |-> dlogit(emb, ker, b, X, y, e)[r]], B))]

step_kernel(emb, ker, b, X, y, B) ==
    [d \in 1..EmbDim |-> [r \in 1..Units |->
        ker[d][r] - Sgn(Sum([e \in B |->
            dlogit(emb, ker, b, X, y, e)[r] * pooled_of(emb, X, e)[d]], B))]]

step_embeddings(emb, ker, b, X, y, B) ==
    [row \in DOMAIN emb |-> [d \in 1..EmbDim |->
        emb[row][d] - Sgn(Sum([e \in B |->
            uses(X, e, row) *
            SumSeq([r \in 1..Units |->
                        dlogit(emb, ker, b, X, y, e)[r] * ker[d][r]])], B))]]

\* The accuracy metric on (X, y): <<outputs whose rounded prediction is the
\* label, outputs>>.
binary_accuracy(emb, ker, b, X, y) ==
    LET hit(e, r) ==
            LET p == score(emb, ker, b, X[e].head, X[e].tail)[r]
            IN IF (IF p > 50 THEN 1 ELSE 0) = y[e][r] THEN 1 ELSE 0
    IN <<SumSeq([e \in DOMAIN X |-> SumSeq([r \in 1..Units |-> hit(e, r)])]),
         Len(X) * Units>>

\* cell 10: model.fit checks the targets against the model's output shape
\* before the first epoch.
FitBegin ==
    /\ pc = "fit"
    /\ IF Len(relation_columns(families)) # Units
       THEN /\ pc' = "error"
            /\ err' = "ValueError"
       ELSE /\ pc' = "epoch"
            /\ err' = err
    /\ epoch' = 0
    /\ UNCHANGED <<inputVars, vocabVars, frameVars, modelVars, encVars,
                   index_array, batch, history, visVars, runVars>>

\* The start of an epoch: shuffle=True permutes the training rows.  With no
\* training row there is no batch, and the epoch ends at once.
EpochBegin ==
    /\ pc = "epoch"
    /\ epoch < Epochs
    /\ \E p \in Draws(Len(X_train), Len(X_train)) : index_array' = p
    /\ batch' = 0
    /\ IF Len(X_train) = 0
       THEN epoch' = epoch + 1 /\ pc' = pc
       ELSE epoch' = epoch /\ pc' = "batch"
    /\ UNCHANGED <<err, inputVars, vocabVars, frameVars, modelVars, encVars,
                   history, visVars, runVars>>

\* One training step, on the next batch of the epoch.
TrainStep ==
    /\ pc = "batch"
    /\ LET B == batch_rows(index_array, batch)
       IN IF \E e \in B : LookupFails(X_train[e])
          THEN /\ pc' = "error"
               /\ err' = "InvalidArgumentError"
               /\ UNCHANGED <<modelVars, batch>>
          ELSE /\ embeddings' =
                     step_embeddings(embeddings, kernel, bias, X_train, y_train, B)
               /\ kernel' = step_kernel(embeddings, kernel, bias, X_train, y_train, B)
               /\ bias' = step_bias(embeddings, kernel, bias, X_train, y_train, B)
               /\ batch' = batch + 1
               /\ pc' = IF batch + 1 = num_batches(Len(X_train))
                        THEN "validate" ELSE "batch"
               /\ err' = err
    /\ UNCHANGED <<inputVars, vocabVars, frameVars, encVars, epoch, index_array,
                   history, visVars, runVars>>

\* A validation pass that also fits the model to the validation split, as
\* train_on_batch in place of test_on_batch would.
ValidateAndTrain ==
    /\ pc = "validate"
    /\ IF \E e \in DOMAIN X_valid : LookupFails(X_valid[e])
       THEN /\ pc' = "error"
            /\ err' = "InvalidArgumentError"
            /\ UNCHANGED <<epoch, history, modelVars>>
       ELSE /\ history' = Append(history,
                    binary_accuracy(embeddings, kernel, bias, X_valid, y_valid))
            /\ embeddings' = step_embeddings(embeddings, kernel, bias,
                                             X_valid, y_valid, DOMAIN X_valid)
            /\ kernel' = step_kernel(embeddings, kernel, bias,
                                     X_valid, y_valid, DOMAIN X_valid)
            /\ bias' = step_bias(embeddings, kernel, bias,
                                 X_valid, y_valid, DOMAIN X_valid)
            /\ epoch' = epoch + 1
            /\ pc' = "epoch"
            /\ err' = err
    /\ UNCHANGED <<inputVars, vocabVars, frameVars, encVars,
                   index_array, batch, visVars, runVars>>

\* After the last batch of an epoch: the metrics on the validation split.
Validate ==
    /\ pc = "validate"
    /\ IF \E e \in DOMAIN X_valid : LookupFails(X_valid[e])
       THEN /\ pc' = "error"
            /\ err' = "InvalidArgumentError"
            /\ UNCHANGED <<epoch, history>>
       ELSE /\ history' = Append(history,
                    binary_accuracy(embeddings, kernel, bias, X_valid, y_valid))
            /\ epoch' = epoch + 1
            /\ pc' = "epoch"
            /\ err' = err
    /\ UNCHANGED <<inputVars, vocabVars, frameVars, modelVars, encVars,
                   index_array, batch, visVars, runVars>>

\* model.fit with an EarlyStopping callback: the fit may return after any
\* finished epoch.
FitEndEarly ==
    /\ pc = "epoch"
    /\ epoch >= 1
    /\ pc' = "visualize"
    /\ UNCHANGED <<err, inputVars, vocabVars, frameVars, modelVars, encVars,
                   fitVars, visVars, runVars>>

\* model.fit returns after the last epoch.
FitEnd ==
    /\ pc = "epoch"
    /\ epoch = Epochs
    /\ pc' = "visualize"
    /\ UNCHANGED <<err, inputVars, vocabVars, frameVars, modelVars, encVars,
                   fitVars, visVars, runVars>>

(***************************************************************************)
(* Visualization.                                                           *)
(***************************************************************************)
\* cell 11: for word in entities_index.keys(): labels.append(word);
\* tokens.append(embeddings[entities_index.get(word) - 1, :]).  The keys come
\* in the dict's order, which Python 3.5 does not fix.
Visualize ==
    /\ pc = "visualize"
    /\ \E order \in Draws(input_dim, input_dim) :
          LET word(k) == CHOOSE w \in DOMAIN entities_index :
                            entities_index[w] = order[k]
          IN /\ labels' = [k \in 1..input_dim |-> word(k)]
             /\ tokens' = [k \in 1..input_dim |->
                              embeddings[entities_index[word(k)] - 1]]
    /\ pc' = "done"
    /\ UNCHANGED <<err, inputVars, vocabVars, frameVars, modelVars, encVars,
                   fitVars, runVars>>

(***************************************************************************)
(* A second run of the notebook on the same input, in a restarted kernel.   *)
(***************************************************************************)
weights == <<embeddings, kernel, bias>>

\* Restart and run all: every name of the first run is gone; the input file
\* and the machine are the same.
Rerun ==
    /\ pc = "done"
    /\ run = 1
    /\ run' = 2
    /\ first_run' = weights
    /\ pc' = "entities"
    /\ entities' = <<>>
    /\ entities_index' = <<>>
    /\ df' = <<>>
    /\ i' = 0
    /\ tmp' = <<>>
    /\ test_data' = <<>>
    /\ training_data' = <<>>
    /\ validation_data' = <<>>
    /\ embeddings' = <<>>
    /\ kernel' = <<>>
    /\ bias' = <<>>
    /\ X_train' = <<>>
    /\ y_train' = <<>>
    /\ X_valid' = <<>>
    /\ y_valid' = <<>>
    /\ epoch' = 0
    /\ index_array' = <<>>
    /\ batch' = 0
    /\ history' = <<>>
    /\ labels' = <<>>
    /\ tokens' = <<>>
    /\ UNCHANGED <<err, inputVars, shape, prediction>>

(***************************************************************************)
(* The row counts of cells 6 and 7 alone: the same arithmetic as above on   *)
(* frames of which only the number of rows is kept, which reaches the sizes *)
(* of the reference run (112 triples, 20 iterations).                       *)
(***************************************************************************)
\* for i in range(20)
NumIterations == 20
\* Largest number of rows of the input file (the reference file has 112).
MaxRows == 112

\* cell 6, one iteration of the loop.
OversampleRows ==
    /\ pc = "oversample"
    /\ i < NumIterations
    /\ shape' = [shape EXCEPT !.df = @ + sample_size(@)]
    /\ i' = i + 1
    /\ UNCHANGED <<pc, err, inputVars, vocabVars, df,
                   tmp, test_data, training_data, validation_data,
                   modelVars, encVars, fitVars, visVars, run, first_run,
                   prediction>>

\* cell 6: the loop is over.
OversampleRowsDone ==
    /\ pc = "oversample"
    /\ i = NumIterations
    /\ pc' = "split_test"
    /\ UNCHANGED <<err, inputVars, vocabVars, frameVars, modelVars, encVars,
                   fitVars, visVars, runVars>>

\* cell 7: the shuffle keeps every row; then
\* tmp, test_data = train_test_split(df, test_size=0.1).
SplitTestRows ==
    /\ pc = "split_test"
    /\ \/ /\ shape' = [shape EXCEPT !.tmp = n_train(shape.df),
                                    !.test_data = n_test(shape.df)]
          /\ pc' = "split_valid"
          /\ err' = err
       \/ /\ n_train(shape.df) = 0
          /\ pc' = "error"
          /\ err' = "ValueError"
          /\ shape' = shape
    /\ UNCHANGED <<inputVars, vocabVars, frameVars, modelVars, encVars,
                   fitVars, visVars, run, first_run, prediction>>

\* cell 7: training_data, validation_data = train_test_split(tmp, test_size=0.1)
SplitValidRows ==
    /\ pc = "split_valid"
    /\ \/ /\ shape' = [shape EXCEPT !.training_data = n_train(shape.tmp),
                                    !.validation_data = n_test(shape.tmp)]
          /\ pc' = "model"
          /\ err' = err
       \/ /\ n_train(shape.tmp) = 0
          /\ pc' = "error"
          /\ err' = "ValueError"
          /\ shape' = shape
    /\ UNCHANGED <<inputVars, vocabVars, frameVars, modelVars, encVars,
                   fitVars, visVars, run, first_run, prediction>>

NoShape ==
    [families |-> 0, df |-> 0, tmp |-> 0, test_data |-> 0, training_data |-> 0,
     validation_data |-> 0]

(***************************************************************************)
(* Specifications.                                                          *)
(***************************************************************************)
NoFrame == <<>>
NoIndex == <<>>
NoWeights == <<>>
NoPrediction == <<>>

\* The names of a fresh kernel, before its first cell runs.
FreshNames ==
    /\ err = ""
    /\ entities = <<>>
    /\ entities_index = NoIndex
    /\ df = NoFrame
    /\ i = 0
    /\ tmp = NoFrame
    /\ test_data = NoFrame
    /\ training_data = NoFrame
    /\ validation_data = NoFrame
    /\ embeddings = NoWeights
    /\ kernel = NoWeights
    /\ bias = NoWeights
    /\ X_train = NoFrame
    /\ y_train = NoFrame
    /\ X_valid = NoFrame
    /\ y_valid = NoFrame
    /\ epoch = 0
    /\ index_array = <<>>
    /\ batch = 0
    /\ history = <<>>
    /\ labels = <<>>
    /\ tokens = <<>>
    /\ prediction = NoPrediction

Devices == {"cpu", "gpu"}

InitWith(inputs) ==
    /\ families \in inputs
    /\ device \in Devices
    /\ run = 1
    /\ first_run = NoWeights
    /\ shape = NoShape
    /\ pc = "entities"
    /\ FreshNames

\* Every input file of 1..MaxTriples triples.
AllInputs == UNION {[1..n -> Triples] : n \in 1..MaxTriples}

InitVocab == InitWith(AllInputs)

NextVocab == BuildEntities \/ FitTokenizer

SpecVocab == InitVocab /\ [][NextVocab]_vars

NextData ==
    \/ NextVocab
    \/ GetDummies
    \/ Oversample
    \/ OversampleDone
    \/ Shuffle
    \/ SplitTest
    \/ SplitValid

SpecData == InitVocab /\ [][NextData]_vars

\* The input files the whole pipeline is run on.
PipelineInputs ==
    {f \in AllInputs :
        \A k \in DOMAIN f :
            /\ f[k].head \in {<<"A">>, <<"c">>, <<"a", " ", "b">>}
            /\ f[k].tail = <<"b">>}

Init == InitWith(PipelineInputs)

Next ==
    \/ NextData
    \/ BuildModel
    \/ Encode
    \/ FitBegin
    \/ EpochBegin
    \/ TrainStep
    \/ Validate
    \/ FitEnd
    \/ Visualize

Spec == Init /\ [][Next]_vars

\* Two runs of the pipeline, one after the other, on one input.
RerunInputs ==
    {f \in PipelineInputs :
        /\ Len(f) = 2
        /\ f[1].head = <<"A">> /\ f[1].relation = "r1"
        /\ f[2].head = <<"A">> /\ f[2].relation = "r2"}

InitRerun == InitWith(RerunInputs)

NextRerun == Next \/ Rerun

SpecRerun == InitRerun /\ [][NextRerun]_vars

\* One run of the pipeline in which every cell that can run does run: "Run
\* All" executes the cells in order, and model.fit runs its loop to its end.
FairInputs ==
    {f \in PipelineInputs :
        /\ Len(f) = 2
        /\ f[1].head = <<"A">> /\ f[1].relation = "r1"
        /\ f[2].head \in {<<"A">>, <<"a", " ", "b">>}}

InitFair == InitWith(FairInputs)

SpecFair == InitFair /\ [][Next]_vars /\ WF_vars(Next)

\* Largest absolute value of a weight the forward computation is tried on.
MaxWeight == 1

WeightValues == (-MaxWeight)..MaxWeight

\* The forward computation alone, on every matrix and every classifier with
\* weights in WeightValues, for the vocabularies of one-triple files.
InitScore ==
    /\ \E f \in {g \in AllInputs : Len(g) = 1 /\ g[1].relation = "r1"
                                   /\ g[1].head = <<"a">>} :
          /\ families = f
          /\ entities = unique(f)
          /\ entities_index = word_index(unique(f))
    /\ device \in Devices
    /\ embeddings \in [0..(input_dim - 1) -> [1..EmbDim -> WeightValues]]
    /\ kernel \in [1..EmbDim -> [1..Units -> WeightValues]]
    /\ bias \in [1..Units -> WeightValues]
    /\ pc = "predict"
    /\ err = ""
    /\ run = 1
    /\ first_run = NoWeights
    /\ shape = NoShape
    /\ prediction = NoPrediction
    /\ df = NoFrame
    /\ i = 0
    /\ tmp = NoFrame
    /\ test_data = NoFrame
    /\ training_data = NoFrame
    /\ validation_data = NoFrame
    /\ X_train = NoFrame
    /\ y_train = NoFrame
    /\ X_valid = NoFrame
    /\ y_valid = NoFrame
    /\ epoch = 0
    /\ index_array = <<>>
    /\ batch = 0
    /\ history = <<>>
    /\ labels = <<>>
    /\ tokens = <<>>

NextScore == Predict

SpecScore == InitScore /\ [][NextScore]_vars

\* The row counts alone, from get_dummies on.
InitRows ==
    /\ families = <<>>
    /\ device \in Devices
    /\ run = 1
    /\ first_run = NoWeights
    /\ \E n \in 1..MaxRows : shape = [NoShape EXCEPT !.families = n, !.df = n]
    /\ pc = "oversample"
    /\ FreshNames

NextRows ==
    \/ OversampleRows
    \/ OversampleRowsDone
    \/ SplitTestRows
    \/ SplitValidRows

SpecRows == InitRows /\ [][NextRows]_vars

\* Rows of the input files the sampling is tried on.
SampleRows == 5

\* Input files of SampleRows triples, some of them twice in the file.
SampleInputs ==
    [1..SampleRows ->
        {t \in Triples : t.head = <<"a">> /\ t.tail \in {<<"b">>, <<"c">>}}]

\* Cell 6 on the frames of the files of SampleInputs, row by row, and on the
\* row counts of the files of 1..MaxRows rows.
InitSample == InitWith(SampleInputs) \/ InitRows

NextSample ==
    \/ /\ families # <<>>
       /\ \/ NextVocab
          \/ GetDummies
          \/ Oversample
          \/ OversampleDone
    \/ /\ families = <<>>
       /\ \/ OversampleRows
          \/ OversampleRowsDone

SpecSample == InitSample /\ [][NextSample]_vars

(***************************************************************************)
(* Properties.                                                              *)
(***************************************************************************)
\* The entities of the input, compared as the vocabulary compares them.
EntitySet ==
    {Lower(families[k].head) : k \in DOMAIN families}
        \cup {Lower(families[k].tail) : k \in DOMAIN families}

VocabularyBuilt == pc \notin {"entities", "tokenizer"}

\* C1: once the vocabulary is built, every entity that is a head or a tail of
\* a triple has an index in it, distinct entities have distinct indices, and
\* the indices are exactly 1..N for N entities.
VocabularyIsBijection ==
    VocabularyBuilt =>
        /\ \A e \in EntitySet : e \in DOMAIN entities_index
        /\ \A e1, e2 \in EntitySet :
              e1 # e2 => entities_index[e1] # entities_index[e2]
        /\ {entities_index[e] : e \in EntitySet} = 1..Cardinality(EntitySet)

\* C2: for every pair of indices and every state of the weights, the output
\* the model gives for (h, t) is the output it gives for (t, h), output by
\* output.
ScoreSymmetric ==
    prediction # NoPrediction =>
        prediction.output =
            score(embeddings, kernel, bias,
                  prediction.input[2], prediction.input[1])

\* An output for two different rows of the matrix that hold different
\* vectors, which is not the output for the head taken twice.
ScoreSymmetricWitness ==
    /\ prediction # NoPrediction
    /\ prediction.input[1] \in DOMAIN embeddings
    /\ prediction.input[2] \in DOMAIN embeddings
    /\ embeddings[prediction.input[1]] # embeddings[prediction.input[2]]
    /\ prediction.output #
          score(embeddings, kernel, bias,
                prediction.input[1], prediction.input[1])

OneHot(v) ==
    /\ \A c \in DOMAIN v : v[c] \in {0, 1}
    /\ Cardinality({c \in DOMAIN v : v[c] = 1}) = 1

\* C3: in the frame before and after oversampling, in every split and in the
\* label arrays handed to training, the relation columns of every row hold
\* exactly one 1 and 0 elsewhere.
OneHotSumsToOne ==
    /\ \A f \in {df, tmp, test_data, training_data, validation_data} :
          \A k \in DOMAIN f : OneHot(f[k].relation)
    /\ \A y \in {y_train, y_valid} : \A k \in DOMAIN y : OneHot(y[k])

\* An augmented frame of two relations, split, and its labels encoded.
OneHotSumsToOneWitness ==
    /\ pc = "fit"
    /\ Len(df) > Len(families)
    /\ Len(relation_columns(families)) = 2
    /\ Len(y_train) >= 1
    /\ Len(y_valid) >= 1
    /\ Len(test_data) >= 1

\* C4, as claimed: every iteration of the oversampling loop makes the frame
\* strictly larger.
SizeStrictlyIncreases == [][i' = i + 1 => shape'.df > shape.df]_vars

\* C4, amended: no iteration makes the frame smaller; an iteration that starts
\* with two rows or more makes it strictly larger, and one that starts with a
\* single row leaves it at one row.
SizeIncreasesFromTwoRows ==
    [][i' = i + 1 =>
          /\ shape'.df >= shape.df
          /\ shape.df >= 2 => shape'.df > shape.df
          /\ shape.df = 1 => shape'.df = 1]_vars

\* The loop has run to its end on a frame that started with two rows or more.
SizeIncreasesWitness ==
    /\ pc = "oversample"
    /\ i = NumIterations
    /\ shape.df > 2

Labels(frame) == {frame[k].label : k \in DOMAIN frame}

\* C5: after the two splits, train, validation and test share no row of the
\* augmented frame, every row of it is in one of them, and their sizes sum to
\* its size.
SplitsPartition ==
    pc = "model" =>
        /\ Cardinality(Labels(df)) = Len(df)
        /\ Labels(training_data) \cap Labels(validation_data) = {}
        /\ Labels(training_data) \cap Labels(test_data) = {}
        /\ Labels(validation_data) \cap Labels(test_data) = {}
        /\ Labels(training_data) \cup Labels(validation_data)
              \cup Labels(test_data) = Labels(df)
        /\ Len(training_data) + Len(validation_data) + Len(test_data) = Len(df)

\* A split of an augmented frame into three splits that each hold a row.
SplitsPartitionWitness ==
    /\ pc = "model"
    /\ Len(df) > Len(families)
    /\ Len(training_data) >= 1
    /\ Len(validation_data) >= 1
    /\ Len(test_data) >= 1

Abs(x) == IF x < 0 THEN -x ELSE x

\* C6: test and validation are each a tenth of the augmented frame and train
\* is eight tenths of it, to within less than one row.
SplitIsEightOneOne ==
    pc = "model" =>
        /\ Abs(10 * shape.test_data - shape.df) < 10
        /\ Abs(10 * shape.validation_data - shape.df) < 10
        /\ Abs(10 * shape.training_data - 8 * shape.df) < 10

InVocabulary(row) ==
    /\ Lower(row.head) \in DOMAIN entities_index
    /\ Lower(row.tail) \in DOMAIN entities_index

\* The one-hot vector of relation r over the relation columns.
OneHotOf(r) ==
    [c \in 1..Len(relation_columns(families)) |->
        IF relation_columns(families)[c] = r THEN 1 ELSE 0]

\* Whether (x, y) is the encoding of `row`: the indices of its lowercased head
\* and tail, and the one-hot vector of the relation of a triple of the input
\* with that head and tail.
EncodingOf(row, x, y) ==
    /\ InVocabulary(row)
    /\ x.head = entities_index[Lower(row.head)]
    /\ x.tail = entities_index[Lower(row.tail)]
    /\ \E j \in DOMAIN families :
          /\ families[j].head = row.head
          /\ families[j].tail = row.tail
          /\ y = OneHotOf(families[j].relation)

Encoded == pc \in {"fit", "epoch", "batch", "validate", "visualize", "done"}

\* C7: the encoding of an example is a function of the triple, the vocabulary
\* and the relation columns: every encoded row is the encoding of the row of
\* the split at its place, every row of both splits is encoded once the cell
\* has run, and the cell raises only when a row holds an entity whose
\* lowercased string is not in the vocabulary.
EncodingIsLookup ==
    /\ \A k \in DOMAIN X_train :
          EncodingOf(training_data[k], X_train[k], y_train[k])
    /\ \A k \in DOMAIN X_valid :
          EncodingOf(validation_data[k], X_valid[k], y_valid[k])
    /\ Encoded =>
          /\ DOMAIN X_train = DOMAIN training_data
          /\ DOMAIN y_train = DOMAIN training_data
          /\ DOMAIN X_valid = DOMAIN validation_data
          /\ DOMAIN y_valid = DOMAIN validation_data
    /\ err = "astype" =>
          \/ \E k \in DOMAIN training_data : ~InVocabulary(training_data[k])
          \/ \E k \in DOMAIN validation_data : ~InVocabulary(validation_data[k])

\* The scenario of the specification: vocabulary {a: 1, b: 2, c: 3}, relation
\* columns r1, r2, and a training row (A, r1, b) encoded as head 1, tail 2,
\* label [1, 0].
EncodingIsLookupWitness ==
    /\ Encoded
    /\ entities_index = (<<"a">> :> 1 @@ <<"b">> :> 2 @@ <<"c">> :> 3)
    /\ relation_columns(families) = <<"r1", "r2">>
    /\ \E k \in DOMAIN X_train :
          /\ training_data[k].head = <<"A">>
          /\ training_data[k].tail = <<"b">>
          /\ X_train[k] = [head |-> 1, tail |-> 2]
          /\ y_train[k] = <<1, 0>>

\* C8: once the encoding cell has run on a split that holds an entity absent
\* from the vocabulary, the run has stopped in a MissingEntity error.
MissingEntityIsExplicit ==
    (/\ pc \notin {"entities", "tokenizer", "get_dummies", "oversample",
                   "shuffle", "split_test", "split_valid", "model", "encode"}
     /\ \/ \E k \in DOMAIN training_data : ~InVocabulary(training_data[k])
        \/ \E k \in DOMAIN validation_data : ~InVocabulary(validation_data[k]))
        => (pc = "error" /\ err = "MissingEntity")

OutOfRange(x) == ~InRange(x.head) \/ ~InRange(x.tail)

\* C9: a training step on a batch, or a validation pass on a split, that
\* holds an index outside [0, input_dim) ends the run in an error: no weight
\* changes and no further step runs.
OutOfRangeIsFatal ==
    [][(\/ /\ pc = "batch"
           /\ \E e \in batch_rows(index_array, batch) : OutOfRange(X_train[e])
        \/ /\ pc = "validate"
           /\ \E e \in DOMAIN X_valid : OutOfRange(X_valid[e]))
          => (pc' = "error" /\ weights' = weights)]_vars

\* C10: a second run of the notebook on the same input ends with the weights
\* the first run ended with.
RunsAgree == (run = 2 /\ pc = "done") => weights = first_run

Training == pc \in {"epoch", "batch", "validate"}

\* C11: a training run that has begun ends, either with all Epochs passes
\* made or in an error; model.fit returns only after exactly Epochs passes
\* (one validation each), never makes more, and leaves its loop only by
\* returning or by raising.
TrainingEnds ==
    /\ (pc = "fit") ~> (pc \in {"visualize", "error"})
    /\ [](epoch <= Epochs /\ Len(history) <= Epochs)
    /\ [][Training =>
            /\ pc' \in {"epoch", "batch", "validate", "visualize", "error"}
            /\ pc' = "visualize" =>
                  /\ epoch = Epochs
                  /\ Len(X_train) > 0 => Len(history) = Epochs
            /\ pc' = "error" => err' # ""]_vars

\* A fit that made all its passes over a training split that holds a row and
\* returned.
TrainingEndsWitness ==
    /\ pc = "visualize"
    /\ epoch = Epochs
    /\ Len(X_train) > 0
    /\ Len(history) = Epochs

\* The relation columns of the rows of a frame.
ColumnsOf(frame) == {DOMAIN frame[k].relation : k \in DOMAIN frame}

\* C12: once the model is built, the embedding matrix, the kernel and the bias
\* change only in a training step on a batch of the training split; the
\* validation pass and the visualization cell leave them as they are; and
\* once the vocabulary and the relation columns are built no step changes
\* them.
WeightsChangeOnlyInTraining ==
    [][/\ (pc # "model" /\ weights' # weights) =>
              /\ pc = "batch"
              /\ batch' = batch + 1
              /\ batch_rows(index_array, batch) \subseteq DOMAIN X_train
              /\ batch_rows(index_array, batch) # {}
       /\ pc \in {"validate", "visualize"} => weights' = weights
       /\ VocabularyBuilt => entities_index' = entities_index
       /\ pc \notin {"entities", "tokenizer", "get_dummies"} =>
              /\ families' = families
              /\ ColumnsOf(df') \subseteq ColumnsOf(df)
              /\ ColumnsOf(df) = {Range(relation_columns(families))}]_vars

\* A run that trained (the bias has left its initial zeros), validated after
\* every pass and visualized.
WeightsChangeWitness ==
    /\ pc = "done"
    /\ Len(history) = Epochs
    /\ tokens # <<>>
    /\ bias # [r \in 1..Units |-> 0]

\* What a row holds, apart from its index label.
Content(row) == [head |-> row.head, tail |-> row.tail, relation |-> row.relation]

\* How many rows of the frame hold c.
CountIn(frame, c) ==
    Cardinality({k \in DOMAIN frame : Content(frame[k]) = c})

\* Whether k is 0.3 * n rounded to the nearest integer, a half to the even one.
IsThreeTenthsRounded(k, n) ==
    /\ Abs(10 * k - 3 * n) <= 5
    /\ Abs(10 * k - 3 * n) = 5 => k % 2 = 0

\* C13: every iteration of the oversampling loop appends round(0.3 * n) rows
\* (halves to even) to the n rows the frame holds by then; the rows it had
\* stay, and the appended rows are rows of it, none taken more often than the
\* frame holds it; and from 112 rows the 20 iterations give 21367 rows.
SampleIsThreeTenths ==
    /\ [][i' = i + 1 =>
            IsThreeTenthsRounded((shape'.df + Len(df')) - (shape.df + Len(df)),
                                 shape.df + Len(df))]_vars
    /\ [][(i' = i + 1 /\ df # <<>>) =>
            /\ SubSeq(df', 1, Len(df)) = df
            /\ \A k \in DOMAIN df :
                  CountIn(SubSeq(df', Len(df) + 1, Len(df')), Content(df[k]))
                      <= CountIn(df, Content(df[k]))
            /\ \A k \in (Len(df) + 1)..Len(df') :
                  CountIn(df, Content(df'[k])) >= 1]_vars
    /\ []((shape.families = 112 /\ pc = "oversample" /\ i = NumIterations)
             => shape.df = 21367)

\* The reference run: 112 triples, 20 iterations, 21367 rows.
SampleIsThreeTenthsWitness ==
    /\ shape.families = 112
    /\ i = NumIterations
    /\ shape.df = 21367

\* An input file whose entity strings hold no space, so that the vocabulary
\* holds every one of them.
WellFormed ==
    \A k \in DOMAIN families :
        /\ " " \notin Range(families[k].head)
        /\ " " \notin Range(families[k].tail)

\* C14: on a well-formed input, every head and tail index of the encoded
\* training and validation splits is a row of the embedding matrix the model
\* was built with, and the run never stops in the lookup's error.
IndicesAreRows ==
    WellFormed =>
        /\ \A k \in DOMAIN X_train :
              X_train[k].head \in DOMAIN embeddings
                  /\ X_train[k].tail \in DOMAIN embeddings
        /\ \A k \in DOMAIN X_valid :
              X_valid[k].head \in DOMAIN embeddings
                  /\ X_valid[k].tail \in DOMAIN embeddings
        /\ err # "InvalidArgumentError"

\* C15: once the visualization cell has run, the vector it holds for every
\* entity of the vocabulary is the vector the forward computation looks up
\* for that entity's index.
VisualizedRowIsLookedUpRow ==
    pc = "done" =>
        \A k \in DOMAIN labels :
            tokens[k] = gather(embeddings, get(entities_index, labels[k]))

\* C16: once the model is built, the number of its outputs is the number of
\* distinct relations of the input's triples, and every label row handed to
\* training has that many columns.
OutputsMatchRelations ==
    bias # NoWeights =>
        /\ Len(bias) = Cardinality({families[k].relation : k \in DOMAIN families})
        /\ \A k \in DOMAIN y_train : Len(y_train[k]) = Len(bias)
        /\ \A k \in DOMAIN y_valid : Len(y_valid[k]) = Len(bias)

=============================================================================
